---- MODULE Spec2Model ----
(***************************************************************************)
(* Model of backend/app.py: the Telegram initData verifier                 *)
(* (build_data_check_string, verify_init_data), the session issuer         *)
(* (make_jwt) and the /auth/telegram handler (auth_telegram).              *)
(*                                                                         *)
(* Python strings are sequences of one-character strings, so that          *)
(* splitting, percent-decoding, sorting and lower-casing are computed      *)
(* character by character as the library code computes them.              *)
(***************************************************************************)
EXTENDS Integers, Sequences, FiniteSets, TLC

VARIABLES
  BOT_TOKEN,         \* app.py:11, read once at import
  INITDATA_TTL_SEC,  \* app.py:13
  DEV_ALLOW_ANON,    \* app.py:14
  SECURE_COOKIES,    \* app.py:15
  now,               \* int(time.time()), the wall clock
  call,              \* the operation last invoked, with its arguments
  ret                \* what that operation returned or raised

vars ==
  <<BOT_TOKEN, INITDATA_TTL_SEC, DEV_ALLOW_ANON, SECURE_COOKIES, now, call, ret>>

-----------------------------------------------------------------------------
(* LET v == e IN F(v), with e evaluated once and v bound to its value.     *)

Let(F(_), e) == CHOOSE y \in {F(v) : v \in {e}} : TRUE

-----------------------------------------------------------------------------
(* Characters.                                                             *)

LF == "\n"

\* U+FFFD, what bytes.decode("utf-8", errors="replace") yields for a byte
\* that is no valid UTF-8 sequence on its own.
REPL == "U+FFFD"

HexDigits ==
  <<"0","1","2","3","4","5","6","7","8","9","a","b","c","d","e","f">>

UpperHexDigits ==
  <<"0","1","2","3","4","5","6","7","8","9","A","B","C","D","E","F">>

\* ASCII 32..126 in code order (the grave accent, which no string literal
\* can hold, is named by its code).
Printable ==
  <<" ","!","\"","#","$","%","&","'","(",")","*","+",",","-",".","/",
    "0","1","2","3","4","5","6","7","8","9",":",";","<","=",">","?",
    "@","A","B","C","D","E","F","G","H","I","J","K","L","M","N","O",
    "P","Q","R","S","T","U","V","W","X","Y","Z","[","\\","]","^","_",
    "chr96","a","b","c","d","e","f","g","h","i","j","k","l","m","n","o",
    "p","q","r","s","t","u","v","w","x","y","z","{","|","}","~">>

\* chr(n) for an ASCII code; control characters other than the line feed
\* are named by their code.
AsciiChar(n) ==
  IF n \in 32..126 THEN Printable[n - 31]
  ELSE IF n = 10 THEN LF
  ELSE "chr" \o ToString(n)

\* A decoded byte as the character utf-8/replace decoding gives it when it
\* stands alone.
Chr(n) == IF n < 128 THEN AsciiChar(n) ELSE REPL

OrdMap ==
  [c \in {AsciiChar(n) : n \in 0..127} |->
     CHOOSE n \in 0..127 : AsciiChar(n) = c]

\* ord(c)
Ord(c) == IF c = REPL THEN 65533 ELSE OrdMap[c]

\* str.lower() on one character
LowerChar(c) ==
  IF c \in {Printable[i] : i \in 34..59} THEN Printable[OrdMap[c] + 1] ELSE c

\* str.lower()
Lower(s0) == Let(LAMBDA s : [i \in 1..Len(s) |-> LowerChar(s[i])], s0)

IsHexChar(c) ==
  \E i \in 1..16 : c = HexDigits[i] \/ c = UpperHexDigits[i]

HexVal(c) ==
  (CHOOSE i \in 1..16 : c = HexDigits[i] \/ c = UpperHexDigits[i]) - 1

\* Characters str.strip() and int() treat as white space (ASCII part).
PyWhitespace == {AsciiChar(n) : n \in (9..13) \cup (28..32)}

SetMin(S0) == Let(LAMBDA S : CHOOSE i \in S : \A j \in S : i <= j, S0)
SetMax(S0) == Let(LAMBDA S : CHOOSE i \in S : \A j \in S : j <= i, S0)

\* The concatenation of the sequences seqs[lo..hi], by halves (the depth
\* of the evaluation stays logarithmic in the length).
RECURSIVE FlattenRange(_, _, _)
FlattenRange(seqs, lo, hi) ==
  IF lo > hi THEN <<>>
  ELSE IF lo = hi THEN seqs[lo]
  ELSE LET mid == (lo + hi) \div 2
       IN  FlattenRange(seqs, lo, mid) \o FlattenRange(seqs, mid + 1, hi)

Flatten(seqs0) == Let(LAMBDA seqs : FlattenRange(seqs, 1, Len(seqs)), seqs0)

\* str < str: lexicographic by code point; diff holds the indices at which
\* the two differ.
StrLessAt(a, b, diff) ==
  IF diff = {} THEN Len(a) < Len(b)
  ELSE Let(LAMBDA i : Ord(a[i]) < Ord(b[i]), SetMin(diff))

StrLess(a, b) ==
  Let(LAMBDA diff : StrLessAt(a, b, diff),
      {i \in 1..(IF Len(a) < Len(b) THEN Len(a) ELSE Len(b)) : a[i] # b[i]})

-----------------------------------------------------------------------------
(* urllib.parse.parse_qsl(init_data, keep_blank_values=True)              *)

\* str.split(sep): the pieces between the separators, empty ones kept.
\* Piece j runs from behind the (j-1)-th separator to before the j-th.
\* at holds the indices of the separators, 0 and Len(s) + 1.
SplitAt(s, at) ==
  [j \in 1..(Cardinality(at) - 1) |->
     SubSeq(s, (CHOOSE p \in at : Cardinality({q \in at : q < p}) = j - 1) + 1,
               (CHOOSE p \in at : Cardinality({q \in at : q < p}) = j) - 1)]

Split(s0, sep) ==
  Let(LAMBDA s :
        Let(LAMBDA at : SplitAt(s, at),
            {i \in 1..Len(s) : s[i] = sep} \cup {0, Len(s) + 1}),
      s0)

\* str.find(sep) + 1: the index of the first sep in s, or 0.
Find(s, sep) ==
  Let(LAMBDA at : IF at = {} THEN 0 ELSE SetMin(at),
      {i \in 1..Len(s) : s[i] = sep})

\* name_value.split('=', 1), with '' appended when there is no '='.
Partition(nv) ==
  Let(LAMBDA i : IF i = 0 THEN <<nv, <<>>>>
                 ELSE <<SubSeq(nv, 1, i - 1), SubSeq(nv, i + 1, Len(nv))>>,
      Find(nv, "="))

\* str.replace('+', ' ')
PlusToSpace(s0) ==
  Let(LAMBDA s : [i \in 1..Len(s) |-> IF s[i] = "+" THEN " " ELSE s[i]], s0)

\* urllib.parse.unquote: %XX with two hex digits (either case) becomes the
\* byte XX, decoded as UTF-8 with errors="replace"; any other % stays.
\* An escape starts at every % that two hex digits follow (a hex digit is
\* no %, so escapes never overlap).
IsEscape(s, i) ==
  /\ i >= 1 /\ i + 2 <= Len(s)
  /\ s[i] = "%" /\ IsHexChar(s[i + 1]) /\ IsHexChar(s[i + 2])

\* The decoded character that position i of s gives: the byte of an escape
\* that starts there, nothing inside an escape, else the character.
UnquoteAt(s, i) ==
  IF IsEscape(s, i) THEN <<Chr(16 * HexVal(s[i + 1]) + HexVal(s[i + 2]))>>
  ELSE IF s[i] # "%" /\ (IsEscape(s, i - 1) \/ IsEscape(s, i - 2)) THEN <<>>
  ELSE <<s[i]>>

Unquote(s0) == Let(LAMBDA s : Flatten([i \in 1..Len(s) |-> UnquoteAt(s, i)]), s0)

NonEmpty(piece) == piece # <<>>

\* One name=value piece, decoded.
ParsePiece(name_value) ==
  Let(LAMBDA nv : <<Unquote(PlusToSpace(nv[1])), Unquote(PlusToSpace(nv[2]))>>,
      Partition(name_value))

\* The ordered list of (name, value) pairs, duplicates and blank values
\* kept; an empty piece (between two &) is skipped.
parse_qsl(qs) ==
  Let(LAMBDA pieces : [i \in 1..Len(pieces) |-> ParsePiece(pieces[i])],
      SelectSeq(Split(qs, "&"), NonEmpty))

-----------------------------------------------------------------------------
(* dict                                                                    *)

\* Index of the last pair of the list whose key is k.
LastIndex(pairs, k) == SetMax({i \in 1..Len(pairs) : pairs[i][1] = k})

\* dict(pairs): a later pair replaces an earlier one with the same key.
Dict(pairs0) ==
  Let(LAMBDA pairs :
        [k \in {pairs[i][1] : i \in 1..Len(pairs)} |->
           pairs[LastIndex(pairs, k)][2]],
      pairs0)

\* (d.get(k) or dflt) for a dict of strings
GetOr(d0, k, dflt) ==
  Let(LAMBDA d : IF k \in DOMAIN d /\ d[k] # <<>> THEN d[k] ELSE dflt, d0)

-----------------------------------------------------------------------------
(* Key names and literals of app.py                                        *)

K_hash == <<"h","a","s","h">>
K_signature == <<"s","i","g","n","a","t","u","r","e">>
K_auth_date == <<"a","u","t","h","_","d","a","t","e">>
K_user == <<"u","s","e","r">>
K_id == <<"i","d">>
K_first_name == <<"f","i","r","s","t","_","n","a","m","e">>
K_last_name == <<"l","a","s","t","_","n","a","m","e">>
K_username == <<"u","s","e","r","n","a","m","e">>
WebAppData == <<"W","e","b","A","p","p","D","a","t","a">>

-----------------------------------------------------------------------------
(* hmac / hashlib                                                          *)

\* str.encode() followed by bytes.hex(): two lower-case hex digits per
\* byte; U+FFFD is the three bytes EF BF BD.
HexOfChar(c) ==
  IF c = REPL THEN <<"e","f","b","f","b","d">>
  ELSE <<HexDigits[(OrdMap[c] \div 16) + 1], HexDigits[(OrdMap[c] % 16) + 1]>>

HexEncode(s0) == Let(LAMBDA s : Flatten([i \in 1..Len(s) |-> HexOfChar(s[i])]), s0)

\* hmac.new(key, msg, hashlib.sha256).digest().  HMAC-SHA256 is idealised
\* as a collision-free keyed function: the digest determines the key and
\* the message (no key holds chr(0)), and nothing else is assumed of it.
HmacSha256(key, msg) == key \o <<AsciiChar(0)>> \o msg

\* .hexdigest(): the digest in lower-case hex.
HexDigest(key, msg) == HexEncode(HmacSha256(key, msg))

\* secret_key = HMAC_SHA256(message=<bot_token>, key="WebAppData")
derive_secret_key(bot_token) == HmacSha256(WebAppData, bot_token)

-----------------------------------------------------------------------------
(* build_data_check_string                                                 *)

\* k not in ("hash", "signature")
IsSigned(kv) == kv[1] \notin {K_hash, K_signature}

\* The place of pairs[i] in the sorted list: behind the pairs with a
\* smaller key and the earlier pairs with the same key (list.sort is
\* stable).
SortedPlace(pairs, i) ==
  Cardinality({j \in 1..Len(pairs) :
                 \/ StrLess(pairs[j][1], pairs[i][1])
                 \/ pairs[j][1] = pairs[i][1] /\ j < i}) + 1

\* pairs.sort(key=lambda kv: kv[0])
SortByKey(pairs0) ==
  Let(LAMBDA pairs :
        [r \in 1..Len(pairs) |->
           pairs[CHOOSE i \in 1..Len(pairs) : SortedPlace(pairs, i) = r]],
      pairs0)

\* "\n".join(f"{k}={v}" for k, v in pairs)
JoinPairs(pairs0) ==
  Let(LAMBDA pairs :
        Flatten([i \in 1..Len(pairs) |->
          (IF i = 1 THEN <<>> ELSE <<LF>>)
            \o pairs[i][1] \o <<"=">> \o pairs[i][2]]),
      pairs0)

\* Fault model: only the hash pair is left out of the signed string.
build_data_check_string_SignsSignature(init_data) ==
  Let(LAMBDA pairs_all :
        [data_check_string |->
           JoinPairs(SortByKey(SelectSeq(pairs_all, LAMBDA kv : kv[1] # K_hash))),
         params |-> Dict(pairs_all)],
      parse_qsl(init_data))

\* Lines 47-52.
build_data_check_string(init_data) ==
  Let(LAMBDA pairs_all :
        [data_check_string |-> JoinPairs(SortByKey(SelectSeq(pairs_all, IsSigned))),
         params |-> Dict(pairs_all)],
      parse_qsl(init_data))

-----------------------------------------------------------------------------
(* int(str)                                                                *)

Digits == {"0","1","2","3","4","5","6","7","8","9"}

\* str.strip(): from the first to the last character that is no white
\* space.
StripTo(s, solid) ==
  IF solid = {} THEN <<>> ELSE SubSeq(s, SetMin(solid), SetMax(solid))

Strip(s0) ==
  Let(LAMBDA s : Let(LAMBDA solid : StripTo(s, solid),
                     {i \in 1..Len(s) : s[i] \notin PyWhitespace}),
      s0)

RECURSIVE DigitsValue(_, _, _)
DigitsValue(s, i, acc) ==
  IF i > Len(s) THEN acc
  ELSE IF s[i] = "_" THEN DigitsValue(s, i + 1, acc)
  ELSE DigitsValue(s, i + 1, 10 * acc + HexVal(s[i]))

\* A decimal literal body: digits, with single underscores between digits.
IsDecimalBody(s) ==
  /\ s # <<>>
  /\ \A i \in 1..Len(s) : s[i] \in Digits \cup {"_"}
  /\ s[1] \in Digits /\ s[Len(s)] \in Digits
  /\ \A i \in 1..(Len(s) - 1) : ~(s[i] = "_" /\ s[i + 1] = "_")

\* int(s): white space stripped, an optional sign, then the digits;
\* anything else is the ValueError.
IntOf(sign, body) ==
  IF ~IsDecimalBody(body) THEN [ok |-> FALSE, n |-> 0]
  ELSE Let(LAMBDA n : [ok |-> TRUE, n |-> IF sign = "-" THEN 0 - n ELSE n],
           DigitsValue(body, 1, 0))

ParseInt(s) ==
  Let(LAMBDA t : IF t # <<>> /\ t[1] \in {"+", "-"}
                 THEN IntOf(t[1], SubSeq(t, 2, Len(t)))
                 ELSE IntOf("+", t),
      Strip(s))

-----------------------------------------------------------------------------
(* Python values: None, bool, int, float, str, list, dict                  *)

PyVal(t, n, str, items, d) ==
  [t |-> t, n |-> n, s |-> str, items |-> items, d |-> d]

None == PyVal("None", 0, <<>>, <<>>, <<>>)
PyBool(b) == PyVal("bool", IF b THEN 1 ELSE 0, <<>>, <<>>, <<>>)
PyInt(n) == PyVal("int", n, <<>>, <<>>, <<>>)
\* A float is kept as the text of its literal.
PyFloat(text) == PyVal("float", 0, text, <<>>, <<>>)
PyStr(str) == PyVal("str", 0, str, <<>>, <<>>)
PyList(items) == PyVal("list", 0, <<>>, items, <<>>)
PyDict(d) == PyVal("dict", 0, <<>>, <<>>, d)

\* bool(v)
Truthy(v) ==
  CASE v.t = "None" -> FALSE
    [] v.t \in {"bool", "int"} -> v.n # 0
    [] v.t = "float" -> \E i \in 1..Len(v.s) :
                          /\ v.s[i] \in (Digits \ {"0"}) \cup {"N", "I"}
                          /\ \A j \in 1..i : v.s[j] \notin {"e", "E"}
    [] v.t = "str" -> v.s # <<>>
    [] v.t = "list" -> v.items # <<>>
    [] v.t = "dict" -> DOMAIN v.d # {}

\* user.get(k, dflt); only a dict has the method.
DictGet(v, k, dflt) == IF k \in DOMAIN v.d THEN v.d[k] ELSE dflt

-----------------------------------------------------------------------------
(* json.loads                                                              *)

JsonFail == [ok |-> FALSE, v |-> None, i |-> 0]
JsonOk(v, i) == [ok |-> TRUE, v |-> v, i |-> i]

\* The character at i, or "" past the end.
At(s, i) == IF i \in 1..Len(s) THEN s[i] ELSE ""

StartsWith(s, i, lit) ==
  /\ i + Len(lit) - 1 <= Len(s)
  /\ \A j \in 1..Len(lit) : s[i + j - 1] = lit[j]

JsonWhitespace == {" ", LF, AsciiChar(9), AsciiChar(13)}

\* The first index from i on whose character is not in the set.
SkipWhile(s, i, set) == SetMin({j \in i..(Len(s) + 1) : At(s, j) \notin set})

SkipWs(s, i) == SkipWhile(s, i, JsonWhitespace)

SkipDigits(s, i) == SkipWhile(s, i, Digits)

\* The simple escapes of a JSON string.
JsonEscapes ==
  [c \in {"\"", "\\", "/", "b", "f", "n", "r", "t"} |->
     CASE c = "b" -> AsciiChar(8) [] c = "f" -> AsciiChar(12)
       [] c = "n" -> LF [] c = "r" -> AsciiChar(13) [] c = "t" -> AsciiChar(9)
       [] OTHER -> c]

\* \uXXXX: an ASCII code point is its character, any other is named by
\* its code.
UnicodeEscape(s, i) ==
  Let(LAMBDA code : IF code < 128 THEN AsciiChar(code) ELSE "u" \o ToString(code),
      4096 * HexVal(s[i]) + 256 * HexVal(s[i + 1])
        + 16 * HexVal(s[i + 2]) + HexVal(s[i + 3]))

\* A character that ends a run of plain string characters: the quote, the
\* backslash, a control character (strict mode), the end.
IsStringStop(c) ==
  \/ c \in {"", "\"", "\\"}
  \/ c # REPL /\ c \in DOMAIN OrdMap /\ OrdMap[c] < 32

\* The body of a string from i0 on, acc holding what is decoded so far; i
\* is the first stop from i0 on.
RECURSIVE ScanString(_, _, _)
ScanStringStop(s, i0, acc, i) ==
  IF At(s, i) = "\"" THEN JsonOk(PyStr(acc \o SubSeq(s, i0, i - 1)), i + 1)
  ELSE IF At(s, i) # "\\" THEN JsonFail
  ELSE IF At(s, i + 1) \in DOMAIN JsonEscapes
    THEN ScanString(s, i + 2,
           acc \o SubSeq(s, i0, i - 1) \o <<JsonEscapes[At(s, i + 1)]>>)
  ELSE IF At(s, i + 1) = "u" /\ i + 5 <= Len(s)
          /\ \A j \in 2..5 : IsHexChar(s[i + j])
    THEN ScanString(s, i + 6,
           acc \o SubSeq(s, i0, i - 1) \o <<UnicodeEscape(s, i + 2)>>)
  ELSE JsonFail

ScanString(s, i0, acc0) ==
  Let(LAMBDA acc :
        Let(LAMBDA i : ScanStringStop(s, i0, acc, i),
            SetMin({j \in i0..(Len(s) + 1) : IsStringStop(At(s, j))})),
      acc0)

\* NUMBER_RE: (-?(?:0|[1-9][0-9]*))(\.[0-9]+)?([eE][-+]?[0-9]+)?
\* The ends (one past the last character) of the integer part, of the
\* fraction and of the exponent; 0 when there is no integer part.
IntEnd(s, i) ==
  Let(LAMBDA d0 : IF At(s, d0) = "0" THEN d0 + 1
                  ELSE IF At(s, d0) \in Digits THEN SkipDigits(s, d0)
                  ELSE 0,
      IF At(s, i) = "-" THEN i + 1 ELSE i)

FracEnd(s, intEnd) ==
  IF At(s, intEnd) = "." /\ At(s, intEnd + 1) \in Digits
  THEN SkipDigits(s, intEnd + 1) ELSE intEnd

ExpEnd(s, fracEnd) ==
  Let(LAMBDA e0 : IF At(s, fracEnd) \in {"e", "E"} /\ At(s, e0) \in Digits
                  THEN SkipDigits(s, e0) ELSE fracEnd,
      IF At(s, fracEnd + 1) \in {"+", "-"} THEN fracEnd + 2 ELSE fracEnd + 1)

NumberOf(s, i, intEnd, end) ==
  IF end # intEnd THEN JsonOk(PyFloat(SubSeq(s, i, end - 1)), end)
  ELSE IF At(s, i) = "-"
    THEN JsonOk(PyInt(0 - DigitsValue(SubSeq(s, i + 1, intEnd - 1), 1, 0)), intEnd)
  ELSE JsonOk(PyInt(DigitsValue(SubSeq(s, i, intEnd - 1), 1, 0)), intEnd)

ScanNumber(s, i) ==
  Let(LAMBDA intEnd :
        IF intEnd = 0 THEN JsonFail
        ELSE Let(LAMBDA end : NumberOf(s, i, intEnd, end),
                 ExpEnd(s, FracEnd(s, intEnd))),
      IntEnd(s, i))

L_NaN == <<"N","a","N">>
L_Infinity == <<"I","n","f","i","n","i","t","y">>
L_NegInfinity == <<"-","I","n","f","i","n","i","t","y">>

\* The literals and numbers at i.
ScanAtom(s, i) ==
  IF StartsWith(s, i, <<"n","u","l","l">>) THEN JsonOk(None, i + 4)
  ELSE IF StartsWith(s, i, <<"t","r","u","e">>) THEN JsonOk(PyBool(TRUE), i + 4)
  ELSE IF StartsWith(s, i, <<"f","a","l","s","e">>) THEN JsonOk(PyBool(FALSE), i + 5)
  ELSE Let(LAMBDA num :
             IF num.ok THEN num
             ELSE IF StartsWith(s, i, L_NaN) THEN JsonOk(PyFloat(L_NaN), i + 3)
             ELSE IF StartsWith(s, i, L_Infinity)
               THEN JsonOk(PyFloat(L_Infinity), i + 8)
             ELSE IF StartsWith(s, i, L_NegInfinity)
               THEN JsonOk(PyFloat(L_NegInfinity), i + 9)
             ELSE JsonFail,
           ScanNumber(s, i))

\* json.scanner.py_make_scanner's _scan_once, with JSONObject and
\* JSONArray, run as a loop over a stack of open containers.  A frame holds
\* the container's kind, its members or items so far and, for an object,
\* the key that waits for its value.  The scanner is about to read a
\* value ("value") or an object key ("key") at i, or has read the value v
\* that ends before i ("reduce"), or has ended ("done", "fail").
Frame(kind, acc, key) == [kind |-> kind, acc |-> acc, key |-> key]

Scan(mode, stack, v, i) == [mode |-> mode, stack |-> stack, v |-> v, i |-> i]

ScanFail == Scan("fail", <<>>, None, 0)

Pop(stack) == SubSeq(stack, 1, Len(stack) - 1)

\* The container a frame has completed, as a value.
Closed(frame) ==
  IF frame.kind = "dict" THEN PyDict(Dict(frame.acc)) ELSE PyList(frame.acc)

\* A frame with the value v added.
Added(frame, v) ==
  IF frame.kind = "dict"
  THEN Frame("dict", Append(frame.acc, <<frame.key, v>>), <<>>)
  ELSE Frame("list", Append(frame.acc, v), <<>>)

\* The value joins the container on top of the stack (top is that frame
\* with the value added), which then closes or goes on behind a comma.
StepJoin(s, st, top, i) ==
  IF At(s, i) = (IF top.kind = "dict" THEN "}" ELSE "]")
    THEN Scan("reduce", Pop(st.stack), Closed(top), i + 1)
  ELSE IF At(s, i) # "," THEN ScanFail
  ELSE Scan(IF top.kind = "dict" THEN "key" ELSE "value",
            Append(Pop(st.stack), top), None, SkipWs(s, i + 1))

StepReduce(s, st) ==
  IF st.stack = <<>> THEN Scan("done", <<>>, st.v, st.i)
  ELSE Let(LAMBDA top : StepJoin(s, st, top, SkipWs(s, st.i)),
           Added(st.stack[Len(st.stack)], st.v))

\* An object's next member: its key, the colon, then its value.
StepColon(s, st, key, colon) ==
  IF At(s, colon) # ":" THEN ScanFail
  ELSE Scan("value",
            Append(Pop(st.stack),
                   Frame("dict", st.stack[Len(st.stack)].acc, key.v.s)),
            None, SkipWs(s, colon + 1))

StepKey(s, st) ==
  IF At(s, st.i) # "\"" THEN ScanFail
  ELSE Let(LAMBDA key : IF key.ok THEN StepColon(s, st, key, SkipWs(s, key.i))
                        ELSE ScanFail,
           ScanString(s, st.i + 1, <<>>))

\* What opens at j, behind an opening bracket and white space.
StepOpen(s, st, kind, j) ==
  IF At(s, j) = (IF kind = "dict" THEN "}" ELSE "]")
    THEN Scan("reduce", st.stack,
              IF kind = "dict" THEN PyDict(<<>>) ELSE PyList(<<>>), j + 1)
  ELSE Scan(IF kind = "dict" THEN "key" ELSE "value",
            Append(st.stack, Frame(kind, <<>>, <<>>)), None, j)

StepValue(s, st) ==
  IF At(s, st.i) = "{" THEN StepOpen(s, st, "dict", SkipWs(s, st.i + 1))
  ELSE IF At(s, st.i) = "[" THEN StepOpen(s, st, "list", SkipWs(s, st.i + 1))
  ELSE Let(LAMBDA atom : IF atom.ok THEN Scan("reduce", st.stack, atom.v, atom.i)
                         ELSE ScanFail,
           IF At(s, st.i) = "\"" THEN ScanString(s, st.i + 1, <<>>)
           ELSE ScanAtom(s, st.i))

RECURSIVE ScanRun(_, _)
ScanRun(s, st0) ==
  Let(LAMBDA st :
        CASE st.mode = "value" -> ScanRun(s, StepValue(s, st))
          [] st.mode = "key" -> ScanRun(s, StepKey(s, st))
          [] st.mode = "reduce" -> ScanRun(s, StepReduce(s, st))
          [] st.mode = "done" -> JsonOk(st.v, st.i)
          [] st.mode = "fail" -> JsonFail,
      st0)

\* json.loads(text): the one value between optional white space, or the
\* JSONDecodeError (ok = FALSE).
json_loads(text0) ==
  Let(LAMBDA text :
        Let(LAMBDA r : IF r.ok /\ SkipWs(text, r.i) = Len(text) + 1 THEN r
                       ELSE JsonFail,
            ScanRun(text, Scan("value", <<>>, None, SkipWs(text, 1)))),
      text0)

-----------------------------------------------------------------------------
(* verify_init_data                                                        *)

\* raise HTTPException(status_code=..., detail=...)
HTTPException(status_code, detail) ==
  [kind |-> "HTTPException", status_code |-> status_code, detail |-> detail,
   user |-> None, params |-> <<>>]

\* return {"user": user, "params": params}
Verified(user, params) ==
  [kind |-> "return", status_code |-> 200, detail |-> "",
   user |-> user, params |-> params]

\* int(params.get("auth_date") or "0"), 0 on the ValueError.
AuthDate(params) ==
  Let(LAMBDA parsed : IF parsed.ok THEN parsed.n ELSE 0,
      ParseInt(GetOr(params, K_auth_date, <<"0">>)))

\* Fault model: a user field that is no JSON is returned as its text.
DecodeUser_KeepsText(params) ==
  Let(LAMBDA user_raw :
        IF user_raw = <<>> THEN None
        ELSE Let(LAMBDA decoded : IF decoded.ok THEN decoded.v ELSE PyStr(user_raw),
                 json_loads(user_raw)),
      GetOr(params, K_user, <<>>))

\* Lines 73-79: the user field decoded, None when it is absent, empty or
\* no JSON.
DecodeUser(params) ==
  Let(LAMBDA user_raw :
        IF user_raw = <<>> THEN None
        ELSE Let(LAMBDA decoded : IF decoded.ok THEN decoded.v ELSE None,
                 json_loads(user_raw)),
      GetOr(params, K_user, <<>>))

\* Fault model: the age is compared with >=, not >.
CheckFreshness_AtTtl(params, ttl_sec, t) ==
  Let(LAMBDA auth_date :
        IF auth_date = 0 \/ (t - auth_date) >= ttl_sec
        THEN HTTPException(401, "expired")
        ELSE Verified(DecodeUser(params), params),
      AuthDate(params))

\* Fault model: a payload dated later than the clock is rejected as well.
CheckFreshness_NoFuture(params, ttl_sec, t) ==
  Let(LAMBDA auth_date :
        IF auth_date = 0 \/ (t - auth_date) > ttl_sec \/ auth_date > t
        THEN HTTPException(401, "expired")
        ELSE Verified(DecodeUser(params), params),
      AuthDate(params))

\* Lines 65-80, behind the signature check.  t is the value
\* int(time.time()) returns at line 69.
CheckFreshness(params, ttl_sec, t) ==
  Let(LAMBDA auth_date :
        IF auth_date = 0 \/ (t - auth_date) > ttl_sec
        THEN HTTPException(401, "expired")
        ELSE Verified(DecodeUser(params), params),
      AuthDate(params))

\* Fault model: the freshness is checked before the signature.
CheckSignature_FreshnessFirst(built, bot_token, ttl_sec, t) ==
  Let(LAMBDA provided_hash :
        IF provided_hash = <<>> THEN HTTPException(400, "no_hash")
        ELSE IF CheckFreshness(built.params, ttl_sec, t).kind # "return"
          THEN HTTPException(401, "expired")
        ELSE IF HexDigest(derive_secret_key(bot_token), built.data_check_string)
                # provided_hash
          THEN HTTPException(401, "bad_hash")
        ELSE CheckFreshness(built.params, ttl_sec, t),
      Lower(GetOr(built.params, K_hash, <<>>)))

\* Fault model: the provided hash is compared as it came, not lower-cased.
CheckSignature_CaseSensitive(built, bot_token, ttl_sec, t) ==
  Let(LAMBDA provided_hash :
        IF provided_hash = <<>> THEN HTTPException(400, "no_hash")
        ELSE IF HexDigest(derive_secret_key(bot_token), built.data_check_string)
                # provided_hash
          THEN HTTPException(401, "bad_hash")
        ELSE CheckFreshness(built.params, ttl_sec, t),
      GetOr(built.params, K_hash, <<>>))

\* Lines 56-63, then the rest.
CheckSignature(built, bot_token, ttl_sec, t) ==
  Let(LAMBDA provided_hash :
        IF provided_hash = <<>> THEN HTTPException(400, "no_hash")
        ELSE IF HexDigest(derive_secret_key(bot_token), built.data_check_string)
                # provided_hash
          THEN HTTPException(401, "bad_hash")
        ELSE CheckFreshness(built.params, ttl_sec, t),
      Lower(GetOr(built.params, K_hash, <<>>)))

verify_init_data(init_data, bot_token, ttl_sec, t) ==
  Let(LAMBDA built : CheckSignature(built, bot_token, ttl_sec, t),
      build_data_check_string(init_data))

-----------------------------------------------------------------------------
(* make_jwt                                                                *)

SESSION_SECRET == <<"d","e","v">>

\* 60 * 60 * 24 * 30
THIRTY_DAYS == 60 * 60 * 24 * 30

\* The default name, U+0413 U+043E U+0441 U+0442 U+044C, a space, "Dev".
GuestName == <<"u1043","u1086","u1089","u1090","u1100"," ","D","e","v">>
L_guest == <<"g","u","e","s","t">>

RECURSIVE NatToStr(_)
NatToStr(n) ==
  IF n < 10 THEN <<HexDigits[n + 1]>>
  ELSE Append(NatToStr(n \div 10), HexDigits[(n % 10) + 1])

\* str(v).  The text of a float, a list or a dict is named by its type,
\* not spelled out.
PyToStr(v) ==
  CASE v.t = "None" -> <<"N","o","n","e">>
    [] v.t = "str" -> v.s
    [] v.t = "int" -> IF v.n < 0 THEN <<"-">> \o NatToStr(0 - v.n) ELSE NatToStr(v.n)
    [] v.t = "bool" -> IF v.n = 1 THEN <<"T","r","u","e">> ELSE <<"F","a","l","s","e">>
    [] OTHER -> <<"repr(" \o v.t \o ")">>

Raised(exc) == [kind |-> "exception", exc |-> exc, payload |-> <<>>, key |-> <<>>]

\* jwt.encode(payload, secret, algorithm="HS256"): the token stands for
\* its claims and the key that signs them.
JwtEncode(payload, secret) ==
  [kind |-> "return", exc |-> "", payload |-> payload, key |-> secret]

\* The payload of lines 84-93 for a falsy user.
GuestClaims(t) ==
  [sub |-> PyToStr(PyStr(L_guest)), name |-> GuestName,
   iat |-> t, exp |-> t + THIRTY_DAYS,
   tg |-> [id |-> None, username |-> None]]

\* The payload of lines 84-93 for a dict that is not empty and whose
\* names are strings.
UserClaims(user, t) ==
  [sub |-> PyToStr(DictGet(user, K_id, None)),
   name |-> Strip(DictGet(user, K_first_name, PyStr(<<>>)).s \o <<" ">>
                    \o DictGet(user, K_last_name, PyStr(<<>>)).s),
   iat |-> t, exp |-> t + THIRTY_DAYS,
   tg |-> [id |-> DictGet(user, K_id, None),
           username |-> DictGet(user, K_username, None)]]

\* Fault model: the guest subject is chosen by "user is None", not by the
\* truth value of user.
make_jwt_NoneOnly(user0, secret, t) ==
  Let(LAMBDA user :
        IF user.t = "None" THEN JwtEncode(GuestClaims(t), secret)
        ELSE IF user.t # "dict" THEN Raised("AttributeError")
        ELSE IF DictGet(user, K_first_name, PyStr(<<>>)).t # "str"
                \/ DictGet(user, K_last_name, PyStr(<<>>)).t # "str"
          THEN Raised("TypeError")
        ELSE JwtEncode(UserClaims(user, t), secret),
      user0)

\* t is the value int(time.time()) returns at line 83.  The dict literal
\* is evaluated top to bottom and the first expression that raises
\* decides: user.get on a truthy value that is no dict, then str.join on
\* a name that is no string.
make_jwt(user0, secret, t) ==
  Let(LAMBDA user :
        IF ~Truthy(user) THEN JwtEncode(GuestClaims(t), secret)
        ELSE IF user.t # "dict" THEN Raised("AttributeError")
        ELSE IF DictGet(user, K_first_name, PyStr(<<>>)).t # "str"
                \/ DictGet(user, K_last_name, PyStr(<<>>)).t # "str"
          THEN Raised("TypeError")
        ELSE JwtEncode(UserClaims(user, t), secret),
      user0)

-----------------------------------------------------------------------------
(* auth_telegram                                                           *)

\* The request body (AuthIn): initData is None or a string.
NoInitData == [present |-> FALSE, text |-> <<>>]
InitData(text) == [present |-> TRUE, text |-> text]

\* {"id": 1, "first_name": "Гость", "last_name": "Dev"}
guest ==
  PyDict(Dict(<< <<K_id, PyInt(1)>>,
                 <<K_first_name, PyStr(<<"u1043","u1086","u1089","u1090","u1100">>)>>,
                 <<K_last_name, PyStr(<<"D","e","v">>)>> >>))

\* No token: the value of the cookie that is not set.
NoToken == [kind |-> "none", exc |-> "", payload |-> <<>>, key |-> <<>>]

NoCookie == [set |-> FALSE, key |-> "", value |-> NoToken, httponly |-> FALSE,
             secure |-> FALSE, samesite |-> "", max_age |-> 0, path |-> ""]

\* response.set_cookie(key="sid", value=token, ...)
SetCookie(token, secure_cookies) ==
  [set |-> TRUE, key |-> "sid", value |-> token, httponly |-> TRUE,
   secure |-> secure_cookies,
   samesite |-> IF ~secure_cookies THEN "lax" ELSE "none",
   max_age |-> THIRTY_DAYS, path |-> "/"]

\* What the handler ends in: the returned body with the cookie set
\* ("return"), a raised HTTPException, or an exception nothing catches
\* ("exception", its class in detail).
Response(kind, status_code, detail, user, cookie) ==
  [kind |-> kind, status_code |-> status_code, detail |-> detail,
   user |-> user, cookie |-> cookie]

\* make_jwt, set_cookie and the returned body: lines 101-112, 123-133.
Issue(user, secret, secure_cookies, t) ==
  Let(LAMBDA token :
        IF token.kind = "return"
        THEN Response("return", 200, "", user, SetCookie(token, secure_cookies))
        ELSE Response("exception", 500, token.exc, None, NoCookie),
      make_jwt(user, secret, t))

\* Lines 120-133.
VerifyAndIssue(init_data, bot_token, ttl_sec, secure_cookies, t1, t2) ==
  Let(LAMBDA verified :
        IF verified.kind # "return"
        THEN Response("HTTPException", verified.status_code, verified.detail,
                      None, NoCookie)
        ELSE Issue(IF Truthy(verified.user) THEN verified.user ELSE PyDict(<<>>),
                   SESSION_SECRET, secure_cookies, t2),
      verify_init_data(init_data, bot_token, ttl_sec, t1))

\* Fault model: a request whose verification fails falls back to the guest
\* session when the guest flag is on.
auth_telegram_GuestOnFailure(data, bot_token, ttl_sec, allow_anon, secure_cookies, t1, t2) ==
  Let(LAMBDA r : IF r.kind = "HTTPException" /\ allow_anon
                 THEN Issue(guest, SESSION_SECRET, secure_cookies, t2)
                 ELSE r,
      IF ~data.present \/ data.text = <<>>
        THEN Response("HTTPException", 400, "no_init_data", None, NoCookie)
      ELSE IF bot_token = <<>>
        THEN Response("HTTPException", 500, "bot_token_not_configured",
                      None, NoCookie)
      ELSE VerifyAndIssue(data.text, bot_token, ttl_sec, secure_cookies, t1, t2))

\* t1 and t2 are the clock readings of verify_init_data and make_jwt.
auth_telegram(data, bot_token, ttl_sec, allow_anon, secure_cookies, t1, t2) ==
  IF (~data.present \/ data.text = <<>>) /\ allow_anon
    THEN Issue(guest, SESSION_SECRET, secure_cookies, t2)
  ELSE IF ~data.present \/ data.text = <<>>
    THEN Response("HTTPException", 400, "no_init_data", None, NoCookie)
  ELSE IF bot_token = <<>>
    THEN Response("HTTPException", 500, "bot_token_not_configured",
                  None, NoCookie)
  ELSE VerifyAndIssue(data.text, bot_token, ttl_sec, secure_cookies, t1, t2)

-----------------------------------------------------------------------------
(* The signing side (the platform): serialize(P, signedWith = S)           *)

\* Characters urllib.parse.quote_plus leaves as they are.
Unreserved ==
  {Printable[i] : i \in (17..26) \cup (34..59) \cup (66..91)} \cup {"_", ".", "-", "~"}

QuoteChar(c) ==
  IF c \in Unreserved THEN <<c>>
  ELSE IF c = " " THEN <<"+">>
  ELSE <<"%", UpperHexDigits[(OrdMap[c] \div 16) + 1],
              UpperHexDigits[(OrdMap[c] % 16) + 1]>>

\* quote_plus(s)
Quote(s0) == Let(LAMBDA s : Flatten([i \in 1..Len(s) |-> QuoteChar(s[i])]), s0)

\* urlencode(pairs): name=value pieces joined by &.
Serialize(pairs0) ==
  Let(LAMBDA pairs :
        Flatten([i \in 1..Len(pairs) |->
          (IF i = 1 THEN <<>> ELSE <<"&">>)
            \o Quote(pairs[i][1]) \o <<"=">> \o Quote(pairs[i][2])]),
      pairs0)

\* The canonical string of a parameter list: the pairs other than hash and
\* signature, by ascending key, as key=value lines.
CanonicalString(pairs) == JoinPairs(SortByKey(SelectSeq(pairs, IsSigned)))

\* The signature of a parameter list under the secret S, in lower-case hex.
SignedHash(pairs, S) ==
  HexEncode(HmacSha256(HmacSha256(WebAppData, S), CanonicalString(pairs)))

UpperChar(c) ==
  IF c \in {Printable[i] : i \in 66..91} THEN Printable[OrdMap[c] - 63] ELSE c

Upper(s0) == Let(LAMBDA s : [i \in 1..Len(s) |-> UpperChar(s[i])], s0)

\* A hex string that differs from h in its first digit.
OtherHash(h0) == Let(LAMBDA h : <<IF h[1] = "0" THEN "1" ELSE "0">> \o Tail(h), h0)

Reverse(seq0) ==
  Let(LAMBDA seq : [i \in 1..Len(seq) |-> seq[Len(seq) + 1 - i]], seq0)

-----------------------------------------------------------------------------
(* Inputs                                                                  *)

MaxNow == 8
MaxTtl == 2
MaxPairs == 2

Ttls == 0..MaxTtl
Tokens == {<<"T">>, <<"U">>}

\* auth_date texts: empty, zero, not a number, two instants, a negative.
AuthDateTexts == {<<>>, <<"0">>, <<"x">>, <<"5">>, <<"7">>, <<"-","3">>}

\* The instant a numeric auth_date text names.
AuthDateNumber ==
  [a \in {<<"0">>, <<"5">>, <<"7">>, <<"-","3">>} |->
     CASE a = <<"0">> -> 0 [] a = <<"5">> -> 5 [] a = <<"7">> -> 7
       [] a = <<"-","3">> -> 0 - 3]

U_id7 == <<"{","\"","i","d","\"",":","7","}">>
U_bad == <<"{","b","a","d">>
U_five == <<"5">>
U_name1 ==
  <<"{","\"","i","d","\"",":","7",",",
    "\"","f","i","r","s","t","_","n","a","m","e","\"",":","1","}">>

\* user texts: empty, an object with an id, malformed JSON, a number, an
\* object whose first_name is a number.
UserTexts == {<<>>, U_id7, U_bad, U_five, U_name1}

\* The identity each user text encodes.
EncodedIdentity ==
  [u \in UserTexts |->
     CASE u = U_id7 -> PyDict(Dict(<< <<K_id, PyInt(7)>> >>))
       [] u = U_five -> PyInt(5)
       [] u = U_name1 -> PyDict(Dict(<< <<K_id, PyInt(7)>>,
                                        <<K_first_name, PyInt(1)>> >>))
       [] OTHER -> None]

K_q == <<"q">>
V_q == <<"a"," ","b","&","c","=","%">>
V_sig == <<"s","g">>

OptionalPair(k, values) == {<<>>} \cup {<< <<k, v>> >> : v \in values}

\* Parameter sets: each key at most once, hash not among them.
ParamLists ==
  {a \o u \o e :
     a \in OptionalPair(K_auth_date, AuthDateTexts),
     u \in OptionalPair(K_user, UserTexts \ {U_name1}),
     e \in {<<>>, << <<K_q, V_q>>, <<K_signature, V_sig>> >>}}

HashVariants == {"valid", "upper", "wrong", "foreign", "empty", "absent"}

\* A token other than S.
OtherToken(S) == CHOOSE T \in Tokens : T # S

\* The hash pair a payload carries, by variant: the signature under S, the
\* same in upper case, another hex string, the signature under another
\* token, the empty string, no pair.
HashPair(variant, P, S) ==
  CASE variant = "valid" -> << <<K_hash, SignedHash(P, S)>> >>
    [] variant = "upper" -> << <<K_hash, Upper(SignedHash(P, S))>> >>
    [] variant = "wrong" -> << <<K_hash, OtherHash(SignedHash(P, S))>> >>
    [] variant = "foreign" -> << <<K_hash, SignedHash(P, OtherToken(S))>> >>
    [] variant = "empty" -> << <<K_hash, <<>>>> >>
    [] variant = "absent" -> <<>>

\* The pairs of a payload: the hash behind the parameters, or the whole
\* list the other way round.
PayloadPairs(P, S, variant, order) ==
  IF order = "hash_last" THEN P \o HashPair(variant, P, S)
  ELSE Reverse(P \o HashPair(variant, P, S))

\* The value P gives the key k, <<>> when P has no such pair.
ValueIn(P, k) ==
  IF \E i \in DOMAIN P : P[i][1] = k
  THEN P[CHOOSE i \in DOMAIN P : P[i][1] = k][2]
  ELSE <<>>

\* The mapping a list of pairs with distinct keys stands for.
MappingOf(pairs) ==
  [k \in {pairs[i][1] : i \in DOMAIN pairs} |-> ValueIn(pairs, k)]

\* P carries an auth_date that is an integer other than zero and at most
\* ttl seconds older than t.
FreshAt(P, ttl, t) ==
  /\ ValueIn(P, K_auth_date) \in DOMAIN AuthDateNumber
  /\ AuthDateNumber[ValueIn(P, K_auth_date)] # 0
  /\ t - AuthDateNumber[ValueIn(P, K_auth_date)] <= ttl

Idle == [op |-> "idle"]

-----------------------------------------------------------------------------
(* The handler: calls of auth_telegram under a configuration                *)

Init ==
  /\ BOT_TOKEN \in {<<>>, <<"T">>}
  /\ INITDATA_TTL_SEC \in Ttls
  /\ DEV_ALLOW_ANON \in BOOLEAN
  /\ SECURE_COOKIES \in BOOLEAN
  /\ now = 5
  /\ call = Idle
  /\ ret = Idle

\* The clock advances between calls.
Tick ==
  /\ call = Idle
  /\ now < MaxNow
  /\ now' = now + 1
  /\ UNCHANGED <<BOT_TOKEN, INITDATA_TTL_SEC, DEV_ALLOW_ANON, SECURE_COOKIES,
                 call, ret>>

\* Parameter sets of the requests: an auth_date or none, a user or none.
AuthParamLists ==
  {a \o u :
     a \in OptionalPair(K_auth_date, {<<"5">>, <<"7">>}),
     u \in OptionalPair(K_user, UserTexts)}

\* The request bodies: no initData, the empty one, or a payload
\* serialized from P with the hash of the variant under S.
Requests ==
  {[data |-> NoInitData, P |-> <<>>, S |-> <<>>, hash |-> "absent"],
   [data |-> InitData(<<>>), P |-> <<>>, S |-> <<>>, hash |-> "absent"]}
    \cup {[data |-> InitData(Serialize(PayloadPairs(P, S, variant, "hash_last"))),
           P |-> P, S |-> S, hash |-> variant] :
            P \in AuthParamLists \ {<<>>}, S \in {<<"T">>}, variant \in HashVariants}

\* POST /auth/telegram.  The clock may advance between the reading in
\* verify_init_data (t1) and the one in make_jwt (t2).
AuthTelegram ==
  /\ call = Idle
  /\ \E request \in Requests, t2 \in {now, now + 1} :
       /\ t2 <= MaxNow
       /\ call' = [op |-> "auth_telegram", data |-> request.data,
                   P |-> request.P, S |-> request.S, hash |-> request.hash,
                   t1 |-> now, t2 |-> t2]
       /\ ret' = auth_telegram(request.data, BOT_TOKEN, INITDATA_TTL_SEC,
                               DEV_ALLOW_ANON, SECURE_COOKIES, now, t2)
       /\ now' = t2
       /\ UNCHANGED <<BOT_TOKEN, INITDATA_TTL_SEC, DEV_ALLOW_ANON, SECURE_COOKIES>>

\* The caller has taken the result; the next call is independent of it.
Done ==
  /\ call # Idle
  /\ call' = Idle
  /\ ret' = Idle
  /\ UNCHANGED <<BOT_TOKEN, INITDATA_TTL_SEC, DEV_ALLOW_ANON, SECURE_COOKIES, now>>

Next == Tick \/ AuthTelegram \/ Done

Spec == Init /\ [][Next]_vars

-----------------------------------------------------------------------------
(* verify_init_data as a function of its inputs                            *)

InitVerify ==
  /\ BOT_TOKEN \in Tokens
  /\ INITDATA_TTL_SEC \in Ttls
  /\ DEV_ALLOW_ANON = FALSE
  /\ SECURE_COOKIES = FALSE
  /\ now = 5
  /\ call = Idle
  /\ ret = Idle

\* verify_init_data(init_data, BOT_TOKEN, INITDATA_TTL_SEC) on a payload
\* serialized from P, with the hash of the variant under S = BOT_TOKEN.
VerifyInitData ==
  /\ call = Idle
  /\ \E P \in ParamLists, variant \in HashVariants, order \in {"hash_last", "reversed"} :
       \E pairs \in {PayloadPairs(P, BOT_TOKEN, variant, order)} :
         /\ call' = [op |-> "verify_init_data", P |-> P, S |-> BOT_TOKEN,
                     hash |-> variant, pairs |-> pairs, t |-> now]
         /\ ret' = verify_init_data(Serialize(pairs), BOT_TOKEN,
                                    INITDATA_TTL_SEC, now)
         /\ UNCHANGED <<BOT_TOKEN, INITDATA_TTL_SEC, DEV_ALLOW_ANON,
                        SECURE_COOKIES, now>>

NextVerify == Tick \/ VerifyInitData \/ Done

SpecVerify == InitVerify /\ [][NextVerify]_vars

-----------------------------------------------------------------------------
(* Properties of verify_init_data                                          *)

NoHash == HTTPException(400, "no_hash")
BadHash == HTTPException(401, "bad_hash")
Expired == HTTPException(401, "expired")

\* A call of verify_init_data has returned or raised.
Verifying == call.op = "verify_init_data"

\* The payload of the call carries the signature of its parameters under
\* the configured token, in lower or upper case.
Authentic == call.hash \in {"valid", "upper"} /\ call.S = BOT_TOKEN

\* The auth_date text of the call's parameters names an integer.
Numeric == ValueIn(call.P, K_auth_date) \in DOMAIN AuthDateNumber

\* The auth_date of the call, for a numeric one, and now - auth_date.
SignedAt == AuthDateNumber[ValueIn(call.P, K_auth_date)]
Age == call.t - SignedAt

\* C3: the checks run in the order hash presence, signature, freshness.  A
\* payload with no hash pair or an empty hash (the empty payload among
\* them) fails with no_hash whatever its auth_date and other pairs; one
\* with a hash that is not empty and is wrong fails with bad_hash whatever
\* its auth_date; expired is raised only for a payload whose signature is
\* valid.
C3_CheckOrder ==
  Verifying =>
    /\ call.hash \in {"empty", "absent"} => ret = NoHash
    /\ call.hash \in {"wrong", "foreign"} => ret = BadHash
    /\ ret = Expired => Authentic

\* A wrongly signed payload without a usable auth_date is rejected for its
\* signature.
C3_Witness ==
  /\ Verifying
  /\ call.hash = "wrong"
  /\ ~Numeric
  /\ ret = BadHash

\* C4: for a correctly signed payload and every ttl >= 0, verification
\* succeeds when now - auth_date = ttl and fails with expired when
\* now - auth_date = ttl + 1; an auth_date that is missing, empty, not a
\* number or zero always fails with expired.
C4_TtlBoundary ==
  Verifying /\ Authentic =>
    /\ Numeric /\ SignedAt # 0 /\ Age = INITDATA_TTL_SEC => ret.kind = "return"
    /\ Numeric /\ Age = INITDATA_TTL_SEC + 1 => ret = Expired
    /\ ~Numeric \/ SignedAt = 0 => ret = Expired

\* A payload exactly ttl seconds old is accepted.
C4_Witness ==
  /\ Verifying /\ Authentic /\ Numeric
  /\ INITDATA_TTL_SEC > 0
  /\ Age = INITDATA_TTL_SEC
  /\ ret.kind = "return"

\* C5 as stated: for all parameter sets P and every secret S, the payload
\* serialized from P and signed under S is accepted by verify_init_data
\* called with S, and the identity returned is the one P's user field
\* encodes.
C5_RoundTrip ==
  Verifying /\ call.hash = "valid" /\ call.S = BOT_TOKEN =>
    /\ ret.kind = "return"
    /\ ret.user = EncodedIdentity[ValueIn(call.P, K_user)]

\* C5, amended: the same for the parameter sets whose auth_date is an
\* integer other than zero and at most ttl seconds before now.
C5_RoundTripFresh ==
  Verifying /\ call.hash = "valid" /\ call.S = BOT_TOKEN
    /\ FreshAt(call.P, INITDATA_TTL_SEC, call.t) =>
      /\ ret.kind = "return"
      /\ ret.user = EncodedIdentity[ValueIn(call.P, K_user)]

\* A fresh signed payload with a user, a value that needs escaping and an
\* ignored signature pair, the hash pair first, gives back its identity.
C5_Witness ==
  /\ Verifying /\ call.hash = "valid"
  /\ FreshAt(call.P, INITDATA_TTL_SEC, call.t)
  /\ ValueIn(call.P, K_user) = U_id7
  /\ ValueIn(call.P, K_signature) = V_sig
  /\ call.pairs[1][1] = K_hash
  /\ ret.kind = "return"
  /\ ret.user = PyDict(Dict(<< <<K_id, PyInt(7)>> >>))

\* C7: for a payload whose signature and freshness are valid, a user field
\* that is no well-formed JSON, is empty or is absent does not fail the
\* call: it returns the identity None and the full parameter mapping.
C7_TolerantDecode ==
  Verifying /\ Authentic /\ FreshAt(call.P, INITDATA_TTL_SEC, call.t)
    /\ ValueIn(call.P, K_user) \in {<<>>, U_bad} =>
      /\ ret.kind = "return"
      /\ ret.user = None
      /\ ret.params = MappingOf(call.pairs)

\* A fresh signed payload whose user field is malformed JSON is accepted
\* with the identity None.
C7_Witness ==
  /\ Verifying /\ Authentic
  /\ ValueIn(call.P, K_user) = U_bad
  /\ ret.kind = "return"
  /\ ret.user = None
  /\ K_user \in DOMAIN ret.params

\* C10: the freshness check bounds only the age.  A correctly signed
\* payload whose auth_date is not zero and later than now is accepted for
\* every ttl >= 0, and a correctly signed payload is rejected as expired
\* exactly when its auth_date is 0 (or no number) or now - auth_date > ttl.
C10_AgeOnly ==
  Verifying /\ Authentic =>
    /\ Numeric /\ SignedAt # 0 /\ SignedAt > call.t => ret.kind = "return"
    /\ ret = Expired <=> (~Numeric \/ SignedAt = 0 \/ Age > INITDATA_TTL_SEC)
    /\ ret # Expired => ret.kind = "return"

\* A payload dated after the clock is accepted with a ttl of zero.
C10_Witness ==
  /\ Verifying /\ Authentic /\ Numeric
  /\ SignedAt > call.t
  /\ INITDATA_TTL_SEC = 0
  /\ ret.kind = "return"

-----------------------------------------------------------------------------
(* Properties of auth_telegram                                             *)

Authenticating == call.op = "auth_telegram"

\* The request carries no initData, or the empty one.
NoData == ~call.data.present \/ call.data.text = <<>>

\* What verify_init_data is to raise for the request, "" when nothing.
ExpectedFailure ==
  IF call.hash \in {"empty", "absent"} THEN "no_hash"
  ELSE IF call.hash \in {"wrong", "foreign"} \/ call.S # BOT_TOKEN THEN "bad_hash"
  ELSE IF ~FreshAt(call.P, INITDATA_TTL_SEC, call.t1) THEN "expired"
  ELSE ""

\* C1: a session for the guest identity is issued only when DEV_ALLOW_ANON
\* is on and no initData was supplied; for every request with initData
\* that is not empty, a verification failure (no hash, bad hash, expired)
\* ends in that error with no token and no cookie, whatever the flag.
C1_GuestOnlyWhenConfigured ==
  Authenticating =>
    /\ NoData => /\ ret.cookie.set <=> DEV_ALLOW_ANON
                 /\ ret.cookie.set => ret.user = guest
    /\ ~NoData /\ ret.cookie.set => BOT_TOKEN # <<>> /\ ExpectedFailure = ""
    /\ ~NoData /\ BOT_TOKEN # <<>> /\ ExpectedFailure # "" =>
         /\ ret.kind = "HTTPException"
         /\ ret.detail = ExpectedFailure
         /\ ~ret.cookie.set

\* With the guest flag on, a request whose signature is wrong ends in
\* bad_hash and sets no cookie.
C1_Witness ==
  /\ Authenticating
  /\ DEV_ALLOW_ANON
  /\ ~NoData
  /\ call.hash = "wrong"
  /\ ret.detail = "bad_hash"
  /\ ~ret.cookie.set

\* The five tagged errors of the handler.
TaggedErrors ==
  {<<400, "no_init_data">>, <<500, "bot_token_not_configured">>,
   <<400, "no_hash">>, <<401, "bad_hash">>, <<401, "expired">>}

\* C9: every call of the handler ends in success with an identity and a
\* session token or in one of the five tagged errors, and in nothing else,
\* also for a signed fresh payload whose user is JSON but no object or has
\* a first_name or last_name that is no string; no_init_data is decided
\* before bot_token_not_configured, and that before a verification error.
C9_TaggedOutcome ==
  Authenticating =>
    /\ \/ ret.kind = "return" /\ ret.cookie.set
       \/ /\ ret.kind = "HTTPException"
          /\ <<ret.status_code, ret.detail>> \in TaggedErrors
    /\ NoData /\ ~DEV_ALLOW_ANON => ret.detail = "no_init_data"
    /\ ~NoData /\ BOT_TOKEN = <<>> => ret.detail = "bot_token_not_configured"

-----------------------------------------------------------------------------
(* verify_init_data on an accepted payload with one character changed      *)

InitTamper ==
  /\ BOT_TOKEN = <<"T">>
  /\ INITDATA_TTL_SEC \in Ttls
  /\ DEV_ALLOW_ANON = FALSE
  /\ SECURE_COOKIES = FALSE
  /\ now = 7
  /\ call = Idle
  /\ ret = Idle

\* The parameter sets of the payloads that are changed.
TamperParamLists ==
  {<< <<K_auth_date, <<"7">>>> >>,
   << <<K_user, U_id7>>, <<K_auth_date, <<"7">>>> >>,
   << <<K_auth_date, <<"5">>>>, <<K_q, V_q>>, <<K_signature, V_sig>> >>}

\* The characters put in place of one of the payload.
TamperChars == {"D", "b", "0", "x", "H", "&", "=", "+", " ", "%"}

\* s with the character at i replaced by c.
Replaced(s, i, c) == [j \in 1..Len(s) |-> IF j = i THEN c ELSE s[j]]

\* A payload signed under BOT_TOKEN that verify_init_data accepts now is
\* given back with the character at one position changed.
Tamper ==
  /\ call = Idle
  /\ \E P \in TamperParamLists :
       \E original \in {Serialize(PayloadPairs(P, BOT_TOKEN, "valid", "hash_last"))} :
         /\ verify_init_data(original, BOT_TOKEN, INITDATA_TTL_SEC, now).kind = "return"
         /\ \E i \in 1..Len(original), c \in TamperChars :
              /\ c # original[i]
              /\ call' = [op |-> "tamper", original |-> original, i |-> i,
                          init_data |-> Replaced(original, i, c), t |-> now]
              /\ ret' = verify_init_data(Replaced(original, i, c), BOT_TOKEN,
                                         INITDATA_TTL_SEC, now)
              /\ UNCHANGED <<BOT_TOKEN, INITDATA_TTL_SEC, DEV_ALLOW_ANON,
                             SECURE_COOKIES, now>>

NextTamper == Tamper \/ Done

SpecTamper == InitTamper /\ [][NextTamper]_vars

Tampered == call.op = "tamper"

\* The canonical string and the lower-cased hash of a payload.
Signed(init_data) ==
  Let(LAMBDA built : [data_check_string |-> built.data_check_string,
                      hash |-> Lower(GetOr(built.params, K_hash, <<>>))],
      build_data_check_string(init_data))

-----------------------------------------------------------------------------
(* build_data_check_string on two payloads                                 *)

\* The configuration plays no part in the pure functions.
InitPure ==
  /\ BOT_TOKEN = <<"T">>
  /\ INITDATA_TTL_SEC = 0
  /\ DEV_ALLOW_ANON = FALSE
  /\ SECURE_COOKIES = FALSE
  /\ now = 5
  /\ call = Idle
  /\ ret = Idle

\* The pairs the two payloads are made of.
CanonPairs ==
  {<<k, v>> : k \in {<<"a">>, <<"b">>}, v \in {<<"1">>, <<"2">>}} \cup {<<K_signature, V_sig>>}

RECURSIVE SeqsUpTo(_, _)
\* The sequences over S of length at most n.
SeqsUpTo(S, n) ==
  IF n = 0 THEN {<<>>}
  ELSE SeqsUpTo(S, n - 1)
         \cup {Append(q, x) : q \in {r \in SeqsUpTo(S, n - 1) : Len(r) = n - 1}, x \in S}

\* build_data_check_string on the payloads of two lists of pairs.
BuildBoth ==
  /\ call = Idle
  /\ \E x \in SeqsUpTo(CanonPairs, MaxPairs), y \in SeqsUpTo(CanonPairs, MaxPairs) :
       /\ call' = [op |-> "build_data_check_string", x |-> x, y |-> y]
       /\ ret' = [x |-> build_data_check_string(Serialize(x)),
                  y |-> build_data_check_string(Serialize(y))]
       /\ UNCHANGED <<BOT_TOKEN, INITDATA_TTL_SEC, DEV_ALLOW_ANON,
                      SECURE_COOKIES, now>>

NextCanon == BuildBoth \/ Done

SpecCanon == InitPure /\ [][NextCanon]_vars

\* The mapping without the keys hash and signature.
SignedParams(params) ==
  [k \in DOMAIN params \ {K_hash, K_signature} |-> params[k]]

\* The keys of the lines of a canonical string made of the pairs above,
\* and the values signed for a key.
SignedValues(data_check_string, k) ==
  {v \in {<<"1">>, <<"2">>} :
     \E i \in 1..Len(data_check_string) :
       /\ i = 1 \/ data_check_string[i - 1] = LF
       /\ SubSeq(data_check_string, i, i + 2) = k \o <<"=">> \o v}

\* C6: the canonical string is determined by the returned mapping without
\* hash and signature: two payloads that decode to the same mapping, by
\* another order of the pairs or by duplicate keys of which the last one
\* wins, give the same canonical string and so the same expected hash, and
\* the value signed for a key is the value returned for that key.
C6_CanonicalFromMapping ==
  call.op = "build_data_check_string" =>
    /\ SignedParams(ret.x.params) = SignedParams(ret.y.params) =>
         /\ ret.x.data_check_string = ret.y.data_check_string
         /\ HexDigest(derive_secret_key(BOT_TOKEN), ret.x.data_check_string)
              = HexDigest(derive_secret_key(BOT_TOKEN), ret.y.data_check_string)
    /\ \A k \in DOMAIN SignedParams(ret.x.params) :
         SignedValues(ret.x.data_check_string, k) = {ret.x.params[k]}

-----------------------------------------------------------------------------
(* make_jwt as a function of the identity                                  *)

\* The id of an identity: none, null, integers, a string; text is str(id).
IssueIds ==
  {[pair |-> <<>>, v |-> None, text |-> <<"N","o","n","e">>],
   [pair |-> << <<K_id, None>> >>, v |-> None, text |-> <<"N","o","n","e">>],
   [pair |-> << <<K_id, PyInt(0)>> >>, v |-> PyInt(0), text |-> <<"0">>],
   [pair |-> << <<K_id, PyInt(7)>> >>, v |-> PyInt(7), text |-> <<"7">>],
   [pair |-> << <<K_id, PyInt(0 - 3)>> >>, v |-> PyInt(0 - 3), text |-> <<"-","3">>],
   [pair |-> << <<K_id, PyStr(L_guest)>> >>, v |-> PyStr(L_guest), text |-> L_guest]}

\* The identities passed to make_jwt: None, the guest, and every dict of
\* an id, names and a username, the empty dict among them.
Identities ==
  {[user |-> None, id |-> CHOOSE x \in IssueIds : x.pair = <<>>],
   [user |-> guest, id |-> [pair |-> << <<K_id, PyInt(1)>> >>, v |-> PyInt(1),
                            text |-> <<"1">>]]}
    \cup {[user |-> PyDict(Dict(id.pair \o f \o l \o u)), id |-> id] :
            id \in IssueIds,
            f \in OptionalPair(K_first_name, {PyStr(<<"A">>), PyInt(1)}),
            l \in OptionalPair(K_last_name, {PyStr(<<"B">>)}),
            u \in OptionalPair(K_username, {PyStr(<<"u">>)})}

\* make_jwt(user, SESSION_SECRET)
MakeJwt ==
  /\ call = Idle
  /\ \E identity \in Identities :
       /\ call' = [op |-> "make_jwt", user |-> identity.user, id |-> identity.id]
       /\ ret' = make_jwt(identity.user, SESSION_SECRET, now)
       /\ UNCHANGED <<BOT_TOKEN, INITDATA_TTL_SEC, DEV_ALLOW_ANON,
                      SECURE_COOKIES, now>>

NextIssue == Tick \/ MakeJwt \/ Done

SpecIssue == InitPure /\ [][NextIssue]_vars

\* make_jwt has returned a token.
Issued == call.op = "make_jwt" /\ ret.kind = "return"

\* C8 as stated: the subject is str(identity.id) whenever the identity is
\* not null and is "guest" exactly when it is null, and platform_id is
\* identity.id or null accordingly; identities without an id, the empty
\* one and the guest {id: 1} are among them.
C8_SubjectOfIdentity ==
  Issued =>
    /\ call.user # None =>
         ret.payload.sub = call.id.text /\ ret.payload.tg.id = call.id.v
    /\ ret.payload.sub = L_guest <=> call.user = None
    /\ call.user = None => ret.payload.tg.id = None

\* C8, amended: for every token make_jwt returns, the subject is "guest"
\* and platform_id null when the identity is null or empty, and the
\* subject is str(identity.id) and platform_id identity.id (null when
\* there is no id) for every other identity.
C8_SubjectOfTruthyIdentity ==
  Issued =>
    IF call.user = None \/ call.user = PyDict(<<>>)
    THEN ret.payload.sub = L_guest /\ ret.payload.tg.id = None
    ELSE ret.payload.sub = call.id.text /\ ret.payload.tg.id = call.id.v

\* The empty identity gets the subject "guest".
C8_Witness ==
  /\ Issued
  /\ call.user = PyDict(<<>>)
  /\ ret.payload.sub = L_guest

====
